---- MODULE Spec2Model ----
(***************************************************************************)
(* Model of the biotools-linter server (src/server/src): the relint /      *)
(* JSON / download dispatcher of api.rs, the input validator of            *)
(* relint_api, the filtered pagination queries of db.rs together with the  *)
(* response assembly of serve_search_api and a client that pages through   *)
(* it, the conversions of Severity and Message, the normalisation of       *)
(* serve_statistics_api, and the pipes of the subprocess of json_api.      *)
(*                                                                         *)
(* Strings are sequences of one-character strings, so that trimming,       *)
(* regex matching, substring search and ILIKE are computed as the code     *)
(* computes them.                                                          *)
(***************************************************************************)
EXTENDS Integers, Sequences, FiniteSets, TLC

VARIABLES
    now,        \* wall clock, in seconds
    lastAdmit,  \* rate limiter: time of the last admitted request, or Never
    req,        \* dispatcher: one record per HTTP request (lint, json, download)
    dstore,     \* dispatcher: the messages table read by /api/download
    vIn,        \* validator: the raw `tool` query parameter
    vPc,        \* validator: "new" before the check, "done" after
    vOut,       \* validator: TRUE iff relint_api passes both checks
    store,      \* search: the messages table
    sReq,       \* search: the request parameters (APIQuery)
    sBuild,     \* search: TRUE iff the build checks integer overflow
    sPc,        \* search: "new", "done" or "panicked"
    sResp,      \* search: the ApiResponse
    sLog,       \* search: the earlier requests of the client and their results
    mRow,       \* conversion: the db::DatabaseEntry to convert
    mPc,        \* conversion: "new", "done" or "panicked"
    mMsg,       \* conversion: the Message built from mRow
    mWire,      \* conversion: the integers written for mMsg.severity
    stFile,     \* statistics: the statistics file, or why it cannot be used
    stPc,       \* statistics: "new", "done" or "panicked"
    stResp,     \* statistics: the buckets of the response
    wLeft,      \* json pipes: payload bytes the writer thread has yet to write
    stdinOpen,  \* json pipes: TRUE while the writer thread holds ChildStdin
    stdinBuf,   \* json pipes: bytes buffered in the stdin pipe
    stdoutBuf,  \* json pipes: bytes buffered in the stdout pipe
    analyzer,   \* json pipes: the subprocess
    hGot,       \* json pipes: bytes of stdout collected by the handler
    hPc         \* json pipes: "draining", "waiting" or "returned"

vars == <<now, lastAdmit, req, dstore, vIn, vPc, vOut, store, sReq, sBuild, sPc, sResp,
          sLog, mRow, mPc, mMsg, mWire, stFile, stPc, stResp,
          wLeft, stdinOpen, stdinBuf, stdoutBuf, analyzer, hGot, hPc>>

dispVars == <<now, lastAdmit, req, dstore>>
valVars == <<vIn, vPc, vOut>>
searchVars == <<store, sReq, sBuild, sPc, sResp, sLog>>
convVars == <<mRow, mPc, mMsg, mWire>>
statVars == <<stFile, stPc, stResp>>
pipeVars == <<wLeft, stdinOpen, stdinBuf, stdoutBuf, analyzer, hGot, hPc>>

-----------------------------------------------------------------------------
(* Characters and strings *)

LowerChars == {"a","b","c","d","e","f","g","h","i","j","k","l","m",
               "n","o","p","q","r","s","t","u","v","w","x","y","z"}
UpperChars == {"A","B","C","D","E","F","G","H","I","J","K","L","M",
               "N","O","P","Q","R","S","T","U","V","W","X","Y","Z"}
DigitChars == {"0","1","2","3","4","5","6","7","8","9"}

\* str::trim strips leading and trailing White_Space characters
WhiteSpace == {" ", "\t", "\n", "\r"}

\* the character class of the regex ^[_\-.0-9a-zA-Z]*$
ToolChars == {"_", "-", "."} \cup DigitChars \cup LowerChars \cup UpperChars

\* the literal searched by input.contains("--lint-all")
LintAll == <<"-","-","l","i","n","t","-","a","l","l">>

RECURSIVE TrimStart(_)
TrimStart(s) ==
    IF s # <<>> /\ Head(s) \in WhiteSpace THEN TrimStart(Tail(s)) ELSE s

RECURSIVE TrimEnd(_)
TrimEnd(s) ==
    IF s # <<>> /\ s[Len(s)] \in WhiteSpace
    THEN TrimEnd(SubSeq(s, 1, Len(s) - 1))
    ELSE s

Trim(s) == TrimEnd(TrimStart(s))

\* str::contains: sub occurs in s as a contiguous substring
Contains(s, sub) ==
    \E i \in 1..(Len(s) - Len(sub) + 1) : SubSeq(s, i, i + Len(sub) - 1) = sub

\* Regex ^[_\-.0-9a-zA-Z]*$ without the multi-line flag: the whole
\* haystack, the empty one included, consists of class characters
ReIsMatch(s) == \A i \in 1..Len(s) : s[i] \in ToolChars

\* relint_api, lines 520-534: TRUE iff neither early return is taken
ValidateNoFlagCheck(raw) == ReIsMatch(Trim(raw))
Validate(raw) ==
    LET input == Trim(raw)
    IN  IF ~ReIsMatch(input) THEN FALSE
        ELSE IF Contains(input, LintAll) THEN FALSE
        ELSE TRUE

-----------------------------------------------------------------------------
(* Option<T> *)

None == [some |-> FALSE]
Some(x) == [some |-> TRUE, v |-> x]

-----------------------------------------------------------------------------
(* Severity (api.rs 115-168) *)

Severities ==
    {"Error", "LinterError", "ReportCritical", "ReportHigh", "ReportMedium", "ReportLow"}

\* the discriminants of the #[repr(u8)] enum: what Serialize_repr and
\* `severity as i32` write
Discriminant(s) ==
    CASE s = "Error" -> 1
      [] s = "LinterError" -> 2
      [] s = "ReportCritical" -> 8
      [] s = "ReportHigh" -> 5
      [] s = "ReportMedium" -> 6
      [] s = "ReportLow" -> 7

\* the defined wire integers
DefinedWire == {Discriminant(s) : s \in Severities}

\* the table of the doc comment of the enum (api.rs 117-123)
Documented(s) ==
    CASE s = "Error" -> 1
      [] s = "LinterError" -> 2
      [] s = "ReportCritical" -> 4
      [] s = "ReportHigh" -> 5
      [] s = "ReportMedium" -> 6
      [] s = "ReportLow" -> 7

\* impl From<Severity> for i32
SeverityToI32(s) ==
    CASE s = "LinterError" -> 2
      [] s = "ReportCritical" -> 8
      [] s = "ReportHigh" -> 5
      [] s = "ReportMedium" -> 6
      [] s = "ReportLow" -> 7
      [] s = "Error" -> 1

\* impl From<i32> for Severity
SeverityFromI32NoCritical(value) ==
    CASE value = 2 -> "LinterError"
      [] value = 5 -> "ReportHigh"
      [] value = 6 -> "ReportMedium"
      [] value = 7 -> "ReportLow"
      [] OTHER -> "Error"
SeverityFromI32(value) ==
    CASE value = 2 -> "LinterError"
      [] value = 8 -> "ReportCritical"
      [] value = 5 -> "ReportHigh"
      [] value = 6 -> "ReportMedium"
      [] value = 7 -> "ReportLow"
      [] OTHER -> "Error"

-----------------------------------------------------------------------------
(* PostgreSQL ILIKE and html_escape::encode_text *)

UpperSeq == <<"A","B","C","D","E","F","G","H","I","J","K","L","M",
              "N","O","P","Q","R","S","T","U","V","W","X","Y","Z">>
LowerSeq == <<"a","b","c","d","e","f","g","h","i","j","k","l","m",
              "n","o","p","q","r","s","t","u","v","w","x","y","z">>

ToLower(c) ==
    IF c \in UpperChars
    THEN LowerSeq[CHOOSE i \in 1..Len(UpperSeq) : UpperSeq[i] = c]
    ELSE c

\* a LIKE pattern must not end with the escape character
LikeValid(p) ==
    LET RECURSIVE Ok(_)
        Ok(q) == IF q = <<>> THEN TRUE
                 ELSE IF Head(q) = "\\" THEN Len(q) >= 2 /\ Ok(Tail(Tail(q)))
                 ELSE Ok(Tail(q))
    IN  Ok(p)

\* s ILIKE p: % matches any run, _ one character, \ quotes the next one
RECURSIVE ILike(_, _)
ILike(s, p) ==
    IF p = <<>> THEN s = <<>>
    ELSE IF Head(p) = "%"
         THEN ILike(s, Tail(p)) \/ (s # <<>> /\ ILike(Tail(s), p))
    ELSE IF Head(p) = "\\"
         THEN /\ Len(p) >= 2
              /\ s # <<>>
              /\ ToLower(Head(s)) = ToLower(p[2])
              /\ ILike(Tail(s), Tail(Tail(p)))
    ELSE IF Head(p) = "_"
         THEN s # <<>> /\ ILike(Tail(s), Tail(p))
    ELSE /\ s # <<>>
         /\ ToLower(Head(s)) = ToLower(Head(p))
         /\ ILike(Tail(s), Tail(p))

\* html_escape::encode_text: & < > become entities, nothing else changes
RECURSIVE EncodeText(_)
EncodeText(s) ==
    IF s = <<>> THEN <<>>
    ELSE (CASE Head(s) = "&" -> <<"&","a","m","p",";">>
            [] Head(s) = "<" -> <<"&","l","t",";">>
            [] Head(s) = ">" -> <<"&","g","t",";">>
            [] OTHER -> <<Head(s)>>) \o EncodeText(Tail(s))

\* format!("%{}%", html_escape::encode_text(query))
QueryPattern(query) == <<"%">> \o EncodeText(query) \o <<"%">>

-----------------------------------------------------------------------------
(* i64 arithmetic on four 16-bit limbs, least significant first *)

LimbBase == 2^16
SignLimb == 2^15

I64(n) == <<n, 0, 0, 0>>
IsNeg(x) == x[4] >= SignLimb
IsSmall(x) == x[2] = 0 /\ x[3] = 0 /\ x[4] = 0

\* x * m modulo 2^64, with the carry out of the top limb
MulLimbs(x, m) ==
    LET t1 == x[1] * m
        t2 == x[2] * m + (t1 \div LimbBase)
        t3 == x[3] * m + (t2 \div LimbBase)
        t4 == x[4] * m + (t3 \div LimbBase)
    IN  [val |-> <<t1 % LimbBase, t2 % LimbBase, t3 % LimbBase, t4 % LimbBase>>,
         carry |-> t4 \div LimbBase]

\* x + a modulo 2^64, a a small natural number
AddLimbs(x, a) ==
    LET t1 == x[1] + a
        t2 == x[2] + (t1 \div LimbBase)
        t3 == x[3] + (t2 \div LimbBase)
        t4 == x[4] + (t3 \div LimbBase)
    IN  <<t1 % LimbBase, t2 % LimbBase, t3 % LimbBase, t4 % LimbBase>>

\* x - 1 modulo 2^64
DecLimbs(x) ==
    IF x[1] > 0 THEN <<x[1] - 1, x[2], x[3], x[4]>>
    ELSE IF x[2] > 0 THEN <<LimbBase - 1, x[2] - 1, x[3], x[4]>>
    ELSE IF x[3] > 0 THEN <<LimbBase - 1, LimbBase - 1, x[3] - 1, x[4]>>
    ELSE <<LimbBase - 1, LimbBase - 1, LimbBase - 1, (x[4] + LimbBase - 1) % LimbBase>>

\* for non-negative x: x * m does not fit an i64
MulOverflows(x, m) == MulLimbs(x, m).carry > 0 \/ IsNeg(MulLimbs(x, m).val)
\* for non-negative x: x + a does not fit an i64
AddOverflows(x, a) == ~IsNeg(x) /\ IsNeg(AddLimbs(x, a))

\* x < n as i64, n a natural number below 2^16
LessThanNat(x, n) == IsNeg(x) \/ (IsSmall(x) /\ x[1] < n)

-----------------------------------------------------------------------------
(* The messages table and the queries of db.rs *)

\* LIMIT 100 and the factor of OFFSET, db.rs 91 and 95
PAGE_SIZE == 100

\* the bounds of "level BETWEEN $1 AND $2" when no severity is given
MIN_SEVERITY == 1
MAX_SEVERITY == 7

\* A row (db::DatabaseEntry) carries time, tool, code and level; location
\* and text take part in no predicate, count or cursor and are left out.
ToolCycle == << <<"t","a">>, <<"T","b">>, <<"a","<","b">>, <<"x","_","y">>, <<"t","a">> >>
CodeCycle == << <<"U","R","L","_","1">>, <<"E","D","_","2">>, <<"D","O","I">> >>
LevelCycle == <<5, 8, 6, 7, 2, 1, 5>>

RowAt(i) ==
    [time  |-> i,
     tool  |-> ToolCycle[(i % Len(ToolCycle)) + 1],
     code  |-> CodeCycle[(i % Len(CodeCycle)) + 1],
     level |-> LevelCycle[(i % Len(LevelCycle)) + 1]]

Table(n) == [i \in 1..n |-> RowAt(i)]

\* the severity match of all four paginated queries (db.rs 81-87, 112-118,
\* 142-148, 168-174)
SeverityRange(severity) ==
    IF severity.some
    THEN <<SeverityToI32(severity.v), SeverityToI32(severity.v)>>
    ELSE <<MIN_SEVERITY, MAX_SEVERITY>>

\* WHERE level BETWEEN $1 AND $2 AND code ILIKE $3
WherePaginated(row, severity, code) ==
    /\ row.level >= SeverityRange(severity)[1]
    /\ row.level <= SeverityRange(severity)[2]
    /\ ILike(row.code, code)

\* WHERE (tool ILIKE $1 OR code ILIKE $1) AND level BETWEEN .. AND code ILIKE ..
WhereSearch(row, query, severity, code) ==
    /\ ILike(row.tool, QueryPattern(query)) \/ ILike(row.code, QueryPattern(query))
    /\ row.level >= SeverityRange(severity)[1]
    /\ row.level <= SeverityRange(severity)[2]
    /\ ILike(row.code, code)

Reverse(s) == [i \in 1..Len(s) |-> s[Len(s) + 1 - i]]

\* The queries have no ORDER BY: the scan order is the server's choice.
ScanOrders == {"heap", "reverse"}
Scan(tbl, order) == IF order = "heap" THEN tbl ELSE Reverse(tbl)

\* LIMIT 100 OFFSET off over the matching rows, off a non-negative i64
LimitOffset(rows, off) ==
    IF ~IsSmall(off) \/ off[1] >= Len(rows) THEN <<>>
    ELSE SubSeq(rows, off[1] + 1,
                IF off[1] + PAGE_SIZE < Len(rows) THEN off[1] + PAGE_SIZE ELSE Len(rows))

\* impl From<DatabaseEntry> for Message (api.rs 221-253): time.try_into()
\* to u64 fails on a negative time
MessageFromPanics(row) == row.time < 0
MessageFrom(row) ==
    [time     |-> row.time,
     tool     |-> EncodeText(row.tool),
     code     |-> EncodeText(row.code),
     severity |-> SeverityFromI32(row.level)]

\* (page as i64) * 100: panics when the build checks overflow, wraps otherwise
OffsetOf(page, checked) ==
    [panic |-> checked /\ MulOverflows(page, PAGE_SIZE),
     off   |-> MulLimbs(page, PAGE_SIZE).val]

\* rows -> Vec<Message>, or a panic of fetch_all(..).unwrap() / Message::from
Fetched(rows, page, pattern, checked) ==
    LET o == OffsetOf(page, checked)
    IN  IF o.panic \/ IsNeg(o.off) \/ ~LikeValid(pattern)
        THEN [panic |-> TRUE, rows |-> <<>>]
        ELSE LET pg == LimitOffset(rows, o.off)
             IN  IF \E i \in 1..Len(pg) : MessageFromPanics(pg[i])
                 THEN [panic |-> TRUE, rows |-> <<>>]
                 ELSE [panic |-> FALSE, rows |-> [i \in 1..Len(pg) |-> MessageFrom(pg[i])]]

get_messages_paginated(tbl, page, severity, code, order, checked) ==
    Fetched(SelectSeq(Scan(tbl, order), LAMBDA row : WherePaginated(row, severity, code)),
            page, code, checked)

get_messages_paginated_search(tbl, page, query, severity, code, order, checked) ==
    Fetched(SelectSeq(Scan(tbl, order), LAMBDA row : WhereSearch(row, query, severity, code)),
            page, code, checked)

count_messages_paginated(tbl, severity, code) ==
    [panic |-> ~LikeValid(code),
     n     |-> Len(SelectSeq(tbl, LAMBDA row : WherePaginated(row, severity, code)))]

count_messages_paginated_search(tbl, query, severity, code) ==
    [panic |-> ~LikeValid(code),
     n     |-> Len(SelectSeq(tbl, LAMBDA row : WhereSearch(row, query, severity, code)))]

-----------------------------------------------------------------------------
(* GET /api/search: serve_search_api (api.rs 455-515) *)

MaxRows == 250
MaxPage == 3

\* 117 and 118 rows hold 100 and 101 rows of a level within 1..7
TableSizes == {n \in 0..MaxRows : n \in {0, 1, 117, 118} \/ n >= 250}

\* 184467440737095517 * 100 = 2^64 + 84, and 92233720368547759 * 100 >= 2^63
WrapPage == <<36701, 62914, 23592, 655>>
NegPage == <<18351, 31457, 44564, 327>>
Pages == {I64(p) : p \in 0..MaxPage} \cup {WrapPage, NegPage}

Queries == {None, Some(<<"t">>), Some(<<"<">>)}
SeverityOpts == {None} \cup {Some(s) : s \in Severities}
CodeOpts == {None, Some(<<"u","r","l","%">>)}

NoResponse == [count |-> 0, next |-> None, previous |-> None, results |-> <<>>]

InitSearch ==
    /\ store \in {Table(n) : n \in TableSizes}
    /\ sReq \in [page : Pages, query : Queries, severity : SeverityOpts, code : CodeOpts]
    /\ sBuild \in BOOLEAN
    /\ sPc = "new"
    /\ sResp = NoResponse
    /\ sLog = <<>>

\* None => "%%".to_owned()
CodeOrAll(code) == IF code.some THEN code.v ELSE <<"%","%">>

\* (page * 100) + 100 < total_count
HasNext(page, total_count) ==
    LessThanNat(AddLimbs(MulLimbs(page, PAGE_SIZE).val, PAGE_SIZE), total_count)

\* page > 0
HasPrevious(page) == ~IsNeg(page) /\ page # I64(0)

\* the arithmetic of lines 503-509 panics when the build checks overflow
CursorPanics(page, total_count, checked) ==
    /\ checked
    /\ \/ MulOverflows(page, PAGE_SIZE)
       \/ AddOverflows(MulLimbs(page, PAGE_SIZE).val, PAGE_SIZE)
       \/ HasNext(page, total_count) /\ AddOverflows(page, 1)

CountFor(tbl, query, severity, code) ==
    IF query.some
    THEN count_messages_paginated_search(tbl, query.v, severity, code)
    ELSE count_messages_paginated(tbl, severity, code)

FetchFor(tbl, page, query, severity, code, order, checked) ==
    IF query.some
    THEN get_messages_paginated_search(tbl, page, query.v, severity, code, order, checked)
    ELSE get_messages_paginated(tbl, page, severity, code, order, checked)

ApiResponse(page, total_count, messages) ==
    [count    |-> total_count,
     next     |-> IF HasNext(page, total_count) THEN Some(AddLimbs(page, 1)) ELSE None,
     previous |-> IF HasPrevious(page) THEN Some(DecLimbs(page)) ELSE None,
     results  |-> messages]

serve_search_api(order) ==
    /\ sPc = "new"
    /\ LET page == sReq.page
           code == CodeOrAll(sReq.code)
           messages == FetchFor(store, page, sReq.query, sReq.severity, code, order, sBuild)
           total == CountFor(store, sReq.query, sReq.severity, code)
       IN  IF messages.panic \/ total.panic \/ CursorPanics(page, total.n, sBuild)
           THEN /\ sPc' = "panicked"
                /\ sResp' = sResp
           ELSE /\ sPc' = "done"
                /\ sResp' = ApiResponse(page, total.n, messages.rows)
    /\ UNCHANGED <<store, sReq, sBuild, sLog>>
    /\ UNCHANGED <<dispVars, valVars, convVars, statVars, pipeVars>>

NextSearch == \E order \in ScanOrders : serve_search_api(order)

-----------------------------------------------------------------------------
(* The input validator of relint_api as a function of the raw parameter *)

MaxPieces == 3

Pieces ==
    { <<"a">>, <<"Z","9">>, <<"_",".","-">>, <<" ">>, <<"\n">>, <<";">>,
      LintAll, <<"-","-","l","i","n","t">>, <<"-","a","l","l">> }

RECURSIVE Concat(_)
Concat(ps) == IF ps = <<>> THEN <<>> ELSE Head(ps) \o Concat(Tail(ps))

RawInputs == {Concat(ps) : ps \in UNION {[1..n -> Pieces] : n \in 0..MaxPieces}}

InitValidator ==
    /\ vIn \in RawInputs
    /\ vPc = "new"
    /\ vOut = FALSE

ValidateStep ==
    /\ vPc = "new"
    /\ vOut' = Validate(vIn)
    /\ vPc' = "done"
    /\ UNCHANGED vIn
    /\ UNCHANGED <<dispVars, searchVars, convVars, statVars, pipeVars>>

NextValidator == ValidateStep

-----------------------------------------------------------------------------
(* The dispatcher: POST /api/lint, POST /api/json, GET /api/download *)

MaxReqs == 3
MaxTime == 2
DispRows == 2

OK == 200
BAD_REQUEST == 400
TOO_MANY_REQUESTS == 429
INTERNAL_SERVER_ERROR == 500

\* "Rate limited to 1 request every 2 seconds"
Window == 2

Reqs == 1..MaxReqs
IPs == {"ip1", "ip2"}
RawTools == { <<"t","a">>, <<"t","b">>, <<" ","t","a">>, <<"a",";">> }
DownloadQueries == {None, Some(<<"t">>), Some(<<"z","z">>)}

\* std::process::ExitStatus: an exit code, or termination by a signal
ExitCodes == {0, 1, 2, 254}
Exits == {[signal |-> FALSE, code |-> c] : c \in ExitCodes}
             \cup {[signal |-> TRUE, code |-> 0]}

\* ExitStatus::success
Success(exit) == ~exit.signal /\ exit.code = 0

NewReq ==
    [kind |-> "none", ip |-> "", tool |-> <<>>, pc |-> "new", status |-> 0,
     body |-> "none", arrivedAt |-> 0, admitted |-> FALSE, valid |-> FALSE,
     exit |-> None]

\* the requests whose analyzer subprocess has been spawned and not reaped;
\* Command::output blocks one worker thread of the runtime, the requests on
\* its other worker threads proceed
Running == {r \in Reqs : req[r].pc = "running"}
InFlight == {r \in Running : req[r].kind = "lint"}

\* requests are numbered in the order of their arrival
Arrives(r) ==
    /\ req[r].kind = "none"
    /\ \A q \in Reqs : q < r => req[q].kind # "none"

Arrived(r, kind, ip) ==
    [req[r] EXCEPT !.kind = kind, !.ip = ip, !.arrivedAt = now]

Respond(rec, status, body) ==
    [rec EXCEPT !.pc = "done", !.status = status, !.body = body]

InitDispatcher ==
    /\ now = 0
    /\ lastAdmit = 0 - Window
    /\ req = [r \in Reqs |-> NewReq]
    /\ dstore \in {Table(0), Table(DispRows)}

Tick ==
    /\ now < MaxTime
    /\ now' = now + 1
    /\ UNCHANGED <<lastAdmit, req, dstore>>
    /\ UNCHANGED <<valVars, searchVars, convVars, statVars, pipeVars>>

\* the limiter in front of /api/lint and /api/download: one request per Window
RateLimitAdmitsAlways(last, t) == TRUE
RateLimitAdmits(last, t) == t - last >= Window

Throttle(r, kind, ip) ==
    /\ Arrives(r)
    /\ ~RateLimitAdmits(lastAdmit, now)
    /\ req' = [req EXCEPT ![r] = Respond(Arrived(r, kind, ip), TOO_MANY_REQUESTS, "none")]
    /\ UNCHANGED <<now, lastAdmit, dstore>>
    /\ UNCHANGED <<valVars, searchVars, convVars, statVars, pipeVars>>

\* the early returns of relint_api and the spawn (api.rs 526-545): a response,
\* or the request waiting for its child
RelintStartUnvalidated(rec, spawned) ==
    IF ~spawned THEN Respond(rec, INTERNAL_SERVER_ERROR, "none")
    ELSE [rec EXCEPT !.pc = "running"]
RelintStart(rec, spawned) ==
    IF ~rec.valid THEN Respond(rec, INTERNAL_SERVER_ERROR, "none")
    ELSE IF ~spawned THEN Respond(rec, INTERNAL_SERVER_ERROR, "none")
    ELSE [rec EXCEPT !.pc = "running"]

\* relint_api up to the spawn inside Command::output (api.rs 519-545)
relint_api(r, ip, raw, spawned) ==
    /\ Arrives(r)
    /\ RateLimitAdmits(lastAdmit, now)
    /\ lastAdmit' = now
    /\ LET input == Trim(raw)
           rec == [Arrived(r, "lint", ip) EXCEPT
                       !.tool = input, !.admitted = TRUE, !.valid = Validate(raw)]
       IN  req' = [req EXCEPT ![r] = RelintStart(rec, spawned)]
    /\ UNCHANGED <<now, dstore>>
    /\ UNCHANGED <<valVars, searchVars, convVars, statVars, pipeVars>>

\* the status match of relint_api (api.rs 549-562)
RelintStatus(exit) == IF Success(exit) THEN OK ELSE INTERNAL_SERVER_ERROR

\* Command::output returns: the child has exited and has been reaped
relint_exit(r, exit) ==
    /\ req[r].kind = "lint"
    /\ req[r].pc = "running"
    /\ req' = [req EXCEPT ![r] =
            Respond([req[r] EXCEPT !.exit = Some(exit)], RelintStatus(exit), "none")]
    /\ UNCHANGED <<now, lastAdmit, dstore>>
    /\ UNCHANGED <<valVars, searchVars, convVars, statVars, pipeVars>>

\* json_api up to wait_with_output (api.rs 573-609); spawn() is expect()ed
json_api(r, spawned) ==
    /\ Arrives(r)
    /\ LET rec == [Arrived(r, "json", "") EXCEPT !.admitted = TRUE]
       IN  req' = [req EXCEPT ![r] =
                IF spawned THEN [rec EXCEPT !.pc = "running"]
                ELSE [rec EXCEPT !.pc = "panicked"]]
    /\ UNCHANGED <<now, lastAdmit, dstore>>
    /\ UNCHANGED <<valVars, searchVars, convVars, statVars, pipeVars>>

\* the classification of json_api (api.rs 611-631)
JsonPanics(exit, utf8) == exit.signal \/ (exit.code # 1 /\ ~utf8)
JsonStatus(exit) ==
    IF exit.code = 1 THEN INTERNAL_SERVER_ERROR
    ELSE IF exit.code = 254 THEN BAD_REQUEST
    ELSE OK
JsonBody(exit) == IF exit.code = 1 THEN "diagnostic" ELSE "stdout"

json_exit(r, exit, utf8) ==
    /\ req[r].kind = "json"
    /\ req[r].pc = "running"
    /\ req' = [req EXCEPT ![r] =
            IF JsonPanics(exit, utf8)
            THEN [req[r] EXCEPT !.exit = Some(exit), !.pc = "panicked"]
            ELSE Respond([req[r] EXCEPT !.exit = Some(exit)], JsonStatus(exit), JsonBody(exit))]
    /\ UNCHANGED <<now, lastAdmit, dstore>>
    /\ UNCHANGED <<valVars, searchVars, convVars, statVars, pipeVars>>

\* get_messages_all and get_messages_all_search (db.rs 47-72)
get_messages_all(tbl) == tbl
get_messages_all_search(tbl, query) ==
    SelectSeq(tbl, LAMBDA row :
        ILike(row.tool, QueryPattern(query)) \/ ILike(row.code, QueryPattern(query)))

\* download_api (api.rs 642-676): reduce(..).unwrap() panics on no message
download_api(r, query) ==
    /\ Arrives(r)
    /\ RateLimitAdmits(lastAdmit, now)
    /\ lastAdmit' = now
    /\ LET rec == [Arrived(r, "download", "") EXCEPT !.admitted = TRUE]
           rows == IF query.some THEN get_messages_all_search(dstore, query.v)
                   ELSE get_messages_all(dstore)
       IN  req' = [req EXCEPT ![r] =
                IF rows = <<>> \/ \E i \in 1..Len(rows) : MessageFromPanics(rows[i])
                THEN [rec EXCEPT !.pc = "panicked"]
                ELSE Respond(rec, OK, "csv")]
    /\ UNCHANGED <<now, dstore>>
    /\ UNCHANGED <<valVars, searchVars, convVars, statVars, pipeVars>>

NextDispatcher ==
    \/ Tick
    \/ \E r \in Reqs, ip \in IPs : Throttle(r, "lint", ip)
    \/ \E r \in Reqs : Throttle(r, "download", "")
    \/ \E r \in Reqs, ip \in IPs, raw \in RawTools, spawned \in BOOLEAN :
           relint_api(r, ip, raw, spawned)
    \/ \E r \in Reqs, exit \in Exits : relint_exit(r, exit)
    \/ \E r \in Reqs, query \in DownloadQueries : download_api(r, query)

NextJson ==
    \/ \E r \in Reqs, spawned \in BOOLEAN : json_api(r, spawned)
    \/ \E r \in Reqs, exit \in Exits, utf8 \in BOOLEAN : json_exit(r, exit, utf8)

-----------------------------------------------------------------------------
(* A client of GET /api/search that issues one request after another *)

StartPages == {I64(0), I64(1)}

InitPaging ==
    /\ store \in {Table(n) : n \in TableSizes}
    /\ sReq \in [page : StartPages, query : Queries, severity : SeverityOpts, code : CodeOpts]
    /\ sBuild \in BOOLEAN
    /\ sPc = "new"
    /\ sResp = NoResponse
    /\ sLog = <<>>

\* the stored rows a response returned, by their time
RowsOf(resp) == [k \in 1..Len(resp.results) |-> resp.results[k].time]

\* what the client keeps of a response it moves on from
Visited(via) == [via |-> via, req |-> sReq, rows |-> RowsOf(sResp)]

\* the client followed only links of kind `via` so far
Followed(via) == \A k \in 1..Len(sLog) : sLog[k].via = via

\* the loop of tests::sql (test.rs 58-70): from page 0 on, request the
\* next page with the same filters until a page comes back empty
RequestNextPage ==
    /\ sPc = "done"
    /\ Followed("page")
    /\ sLog = <<>> => sReq.page = I64(0)
    /\ Len(sResp.results) # 0
    /\ sLog' = Append(sLog, Visited("page"))
    /\ sReq' = [sReq EXCEPT !.page = AddLimbs(sReq.page, 1)]
    /\ sPc' = "new"
    /\ UNCHANGED <<store, sBuild, sResp>>
    /\ UNCHANGED <<dispVars, valVars, convVars, statVars, pipeVars>>

\* The links are format!("?page={}", ..): a relative reference that holds a
\* query component only, so resolving it replaces the whole query string
\* of the request and the new request carries the page alone.
LinkTarget(link) == [page |-> link.v, query |-> None, severity |-> None, code |-> None]

FollowNext ==
    /\ sPc = "done"
    /\ sLog = <<>>
    /\ sResp.next.some
    /\ sLog' = Append(sLog, Visited("next"))
    /\ sReq' = LinkTarget(sResp.next)
    /\ sPc' = "new"
    /\ UNCHANGED <<store, sBuild, sResp>>
    /\ UNCHANGED <<dispVars, valVars, convVars, statVars, pipeVars>>

FollowPrevious ==
    /\ sPc = "done"
    /\ Len(sLog) = 1
    /\ Followed("next")
    /\ sResp.previous.some
    /\ sLog' = Append(sLog, Visited("previous"))
    /\ sReq' = LinkTarget(sResp.previous)
    /\ sPc' = "new"
    /\ UNCHANGED <<store, sBuild, sResp>>
    /\ UNCHANGED <<dispVars, valVars, convVars, statVars, pipeVars>>

NextPaging ==
    \/ \E order \in ScanOrders : serve_search_api(order)
    \/ RequestNextPage
    \/ FollowNext
    \/ FollowPrevious

-----------------------------------------------------------------------------
(* Message::from applied to one stored row (api.rs 221-253) *)

MaxLevel == 12
MaxStamp == 3

Levels == (0 - MaxLevel)..MaxLevel
Stamps == (0 - MaxStamp)..MaxStamp

NoMessage == [time |-> 0, tool |-> <<>>, code |-> <<>>, severity |-> "Error"]
NoWire == [into |-> 0, repr |-> 0]

InitConv ==
    /\ mRow \in [time : Stamps, tool : {ToolCycle[3]}, code : {CodeCycle[1]}, level : Levels]
    /\ mPc = "new"
    /\ mMsg = NoMessage
    /\ mWire = NoWire

IdleConv ==
    /\ mRow = [time |-> 0, tool |-> <<>>, code |-> <<>>, level |-> 1]
    /\ mPc = "done"
    /\ mMsg = NoMessage
    /\ mWire = NoWire

\* Message::from(row), followed by the two ways the severity of the message
\* is written as an integer: i32::from(severity) and `severity as i32`
message_from ==
    /\ mPc = "new"
    /\ IF MessageFromPanics(mRow)
       THEN /\ mPc' = "panicked"
            /\ UNCHANGED <<mMsg, mWire>>
       ELSE /\ mPc' = "done"
            /\ mMsg' = MessageFrom(mRow)
            /\ mWire' = [into |-> SeverityToI32(MessageFrom(mRow).severity),
                         repr |-> Discriminant(MessageFrom(mRow).severity)]
    /\ UNCHANGED mRow
    /\ UNCHANGED <<dispVars, valVars, searchVars, statVars, pipeVars>>

NextConv == message_from

-----------------------------------------------------------------------------
(* GET /api/statistics: serve_statistics_api (api.rs 420-441) *)

ERROR_CODES ==
    <<"URL_INVALID", "URL_PERMANENT_REDIRECT", "URL_BAD_STATUS", "URL_NO_SSL",
      "URL_UNUSED_SSL", "URL_TIMEOUT", "URL_SSL_ERROR", "URL_CONN_ERROR",
      "URL_LINTER_ERROR", "EDAM_OBSOLETE", "EDAM_NOT_RECOMMENDED", "EDAM_INVALID",
      "DOI_BUT_NOT_PMID", "DOI_BUT_NOT_PMCID", "PMID_BUT_NOT_DOI",
      "PMCID_BUT_NOT_DOI", "PMCID_BUT_NOT_PMID", "URL_TOO_MANY_REDIRECTS",
      "EDAM_TOPIC_DISCREPANCY", "EDAM_INPUT_DISCREPANCY", "EDAM_OUTPUT_DISCREPANCY",
      "PMID_DISCREPANCY", "PMCID_DISCREPANCY", "DOI_DISCREPANCY",
      "EDAM_FORMAT_DISCREPANCY">>

MaxBuckets == 2
MaxCount == 1

\* serde_json::Value: null or a number
Null == [null |-> TRUE]
Number(n) == [null |-> FALSE, n |-> n]
Values == {Null} \cup {Number(n) : n \in 0..MaxCount}

\* the keys a bucket of the file may hold: a run of the known codes, with
\* or without a key that is no known code
CodeRun(lo, hi) == {ERROR_CODES[i] : i \in lo..hi}
KeySets ==
    {CodeRun(lo, hi) \cup extra :
        lo \in {1, 2, 14}, hi \in {0, 13, Len(ERROR_CODES)}, extra \in {{}, {"OTHER_CODE"}}}

\* StatisticsEntry: the time of the bucket and its error_types map
Entries ==
    {[time |-> 1, error_types |-> [k \in keys |-> val]] : keys \in KeySets, val \in Values}

DataOfLen(n) == [1..n -> Entries]

StatsFiles ==
    {[ok |-> TRUE, data |-> d] : d \in UNION {DataOfLen(n) : n \in 0..MaxBuckets}}
    \cup {[ok |-> FALSE, data |-> <<>>]}

InitStats ==
    /\ stFile \in StatsFiles
    /\ stPc = "new"
    /\ stResp = <<>>

\* Map::insert(code, Value::Null)
InsertNull(m, code) ==
    [k \in DOMAIN m \cup {code} |-> IF k = code THEN Null ELSE m[k]]

\* for code in ERROR_CODES { if !contains_key(code) { insert(code, Null) } },
\* from the i-th code on
InsertAlways(m, i) ==
    [k \in DOMAIN m \cup CodeRun(i, Len(ERROR_CODES)) |->
        IF k \in CodeRun(i, Len(ERROR_CODES)) THEN Null ELSE m[k]]
RECURSIVE InsertMissing(_, _)
InsertMissing(m, i) ==
    IF i > Len(ERROR_CODES) THEN m
    ELSE IF ERROR_CODES[i] \in DOMAIN m
         THEN InsertMissing(m, i + 1)
         ELSE InsertMissing(InsertNull(m, ERROR_CODES[i]), i + 1)

\* read_to_string(..).expect(..) and from_str(..).expect(..) panic on a file
\* that is missing or is no Statistics document
serve_statistics_api ==
    /\ stPc = "new"
    /\ IF ~stFile.ok
       THEN /\ stPc' = "panicked"
            /\ stResp' = stResp
       ELSE /\ stPc' = "done"
            /\ stResp' = [i \in 1..Len(stFile.data) |->
                             [stFile.data[i] EXCEPT
                                 !.error_types = InsertMissing(@, 1)]]
    /\ UNCHANGED stFile
    /\ UNCHANGED <<dispVars, valVars, searchVars, convVars, pipeVars>>

NextStats == serve_statistics_api

IdleStats ==
    /\ stFile = [ok |-> TRUE, data |-> <<>>]
    /\ stPc = "done"
    /\ stResp = <<>>

-----------------------------------------------------------------------------
(* POST /api/json: the pipes of the subprocess (api.rs 589-609) *)

\* Both pipes buffer up to PipeCap bytes; the payload and the output of the
\* analyzer may be shorter or longer than that.
PipeCap == 2
MaxPayload == 4
MaxOutput == 4

\* The analyzer is a sequential program: it blocks in the read or the write
\* it has reached. It reads its input to end-of-file, writes its output and
\* exits, in one of three orders.
Modes == {"read_then_write", "write_then_read", "alternate"}

Analyzer(mode, out, turn, eof, exited) ==
    [mode |-> mode, out |-> out, turn |-> turn, eof |-> eof, exited |-> exited]

\* after spawn(), child.stdin.take() and thread::spawn (api.rs 589-607)
InitPipes ==
    /\ wLeft \in 0..MaxPayload
    /\ stdinOpen = TRUE
    /\ stdinBuf = 0
    /\ stdoutBuf = 0
    /\ analyzer \in {Analyzer(mode, out, "read", FALSE, FALSE) :
                        mode \in Modes, out \in 0..MaxOutput}
    /\ hGot = 0
    /\ hPc = "draining"

IdlePipes ==
    /\ wLeft = 0
    /\ stdinOpen = FALSE
    /\ stdinBuf = 0
    /\ stdoutBuf = 0
    /\ analyzer = Analyzer("read_then_write", 0, "read", TRUE, TRUE)
    /\ hGot = 0
    /\ hPc = "returned"

\* the writer thread, in stdin.write_all(json.as_bytes()): one write(2)
\* that blocks while the pipe is full and then moves the bytes that fit
WriterWrite ==
    /\ stdinOpen
    /\ wLeft > 0
    /\ stdinBuf < PipeCap
    /\ \E k \in 1..(PipeCap - stdinBuf) :
           /\ k <= wLeft
           /\ wLeft' = wLeft - k
           /\ stdinBuf' = stdinBuf + k
    /\ UNCHANGED <<stdinOpen, stdoutBuf, analyzer, hGot, hPc>>
    /\ UNCHANGED <<dispVars, valVars, searchVars, convVars, statVars>>

\* write_all has returned: the closure ends and drops ChildStdin
WriterClose ==
    /\ stdinOpen
    /\ wLeft = 0
    /\ stdinOpen' = FALSE
    /\ UNCHANGED <<wLeft, stdinBuf, stdoutBuf, analyzer, hGot, hPc>>
    /\ UNCHANGED <<dispVars, valVars, searchVars, convVars, statVars>>

\* which call the analyzer has reached
AtRead ==
    /\ ~analyzer.exited
    /\ ~analyzer.eof
    /\ \/ analyzer.mode = "read_then_write"
       \/ analyzer.mode = "write_then_read" /\ analyzer.out = 0
       \/ analyzer.mode = "alternate" /\ (analyzer.turn = "read" \/ analyzer.out = 0)
AtWrite ==
    /\ ~analyzer.exited
    /\ analyzer.out > 0
    /\ ~AtRead

\* read(2) on stdin returns the buffered bytes
AnalyzerRead ==
    /\ AtRead
    /\ stdinBuf > 0
    /\ \E k \in 1..stdinBuf : stdinBuf' = stdinBuf - k
    /\ analyzer' = [analyzer EXCEPT !.turn = "write"]
    /\ UNCHANGED <<wLeft, stdinOpen, stdoutBuf, hGot, hPc>>
    /\ UNCHANGED <<dispVars, valVars, searchVars, convVars, statVars>>

\* read(2) on stdin returns 0: the pipe is empty and its write end closed
AnalyzerEof ==
    /\ AtRead
    /\ stdinBuf = 0
    /\ ~stdinOpen
    /\ analyzer' = [analyzer EXCEPT !.eof = TRUE]
    /\ UNCHANGED <<wLeft, stdinOpen, stdinBuf, stdoutBuf, hGot, hPc>>
    /\ UNCHANGED <<dispVars, valVars, searchVars, convVars, statVars>>

\* write(2) on stdout blocks while the pipe is full
AnalyzerWrite ==
    /\ AtWrite
    /\ stdoutBuf < PipeCap
    /\ \E k \in 1..(PipeCap - stdoutBuf) :
           /\ k <= analyzer.out
           /\ stdoutBuf' = stdoutBuf + k
           /\ analyzer' = [analyzer EXCEPT !.out = @ - k, !.turn = "read"]
    /\ UNCHANGED <<wLeft, stdinOpen, stdinBuf, hGot, hPc>>
    /\ UNCHANGED <<dispVars, valVars, searchVars, convVars, statVars>>

\* the analyzer exits: its end of the stdout pipe closes
AnalyzerExit ==
    /\ ~analyzer.exited
    /\ analyzer.eof
    /\ analyzer.out = 0
    /\ analyzer' = [analyzer EXCEPT !.exited = TRUE]
    /\ UNCHANGED <<wLeft, stdinOpen, stdinBuf, stdoutBuf, hGot, hPc>>
    /\ UNCHANGED <<dispVars, valVars, searchVars, convVars, statVars>>

\* The handler is in child.wait_with_output(), reading stdout to its end,
\* from the moment the writer thread is spawned.
DrainingAfterWrite == hPc = "draining" /\ ~stdinOpen
Draining == hPc = "draining"

HandlerRead ==
    /\ Draining
    /\ stdoutBuf > 0
    /\ hGot' = hGot + stdoutBuf
    /\ stdoutBuf' = 0
    /\ UNCHANGED <<wLeft, stdinOpen, stdinBuf, analyzer, hPc>>
    /\ UNCHANGED <<dispVars, valVars, searchVars, convVars, statVars>>

\* read_to_end sees the end of stdout
HandlerEof ==
    /\ Draining
    /\ stdoutBuf = 0
    /\ analyzer.exited
    /\ hPc' = "waiting"
    /\ UNCHANGED <<wLeft, stdinOpen, stdinBuf, stdoutBuf, analyzer, hGot>>
    /\ UNCHANGED <<dispVars, valVars, searchVars, convVars, statVars>>

\* wait() yields the exit status and wait_with_output returns
HandlerWait ==
    /\ hPc = "waiting"
    /\ analyzer.exited
    /\ hPc' = "returned"
    /\ UNCHANGED <<wLeft, stdinOpen, stdinBuf, stdoutBuf, analyzer, hGot>>
    /\ UNCHANGED <<dispVars, valVars, searchVars, convVars, statVars>>

NextPipes ==
    \/ WriterWrite
    \/ WriterClose
    \/ AnalyzerRead
    \/ AnalyzerEof
    \/ AnalyzerWrite
    \/ AnalyzerExit
    \/ HandlerRead
    \/ HandlerEof
    \/ HandlerWait

\* the writer thread, the subprocess and the handler are each scheduled
FairPipes ==
    /\ WF_vars(WriterWrite \/ WriterClose)
    /\ WF_vars(AnalyzerRead \/ AnalyzerEof \/ AnalyzerWrite \/ AnalyzerExit)
    /\ WF_vars(HandlerRead \/ HandlerEof \/ HandlerWait)

-----------------------------------------------------------------------------
(* Specifications *)

IdleDispatcher ==
    /\ now = 0
    /\ lastAdmit = 0 - Window
    /\ req = [r \in Reqs |-> NewReq]
    /\ dstore = Table(0)

IdleValidator ==
    /\ vIn = <<>>
    /\ vPc = "done"
    /\ vOut = FALSE

IdleSearch ==
    /\ store = Table(0)
    /\ sReq = [page |-> I64(0), query |-> None, severity |-> None, code |-> None]
    /\ sBuild = FALSE
    /\ sPc = "done"
    /\ sResp = NoResponse
    /\ sLog = <<>>

\* the dispatcher: concurrent /api/lint and /api/download requests
Init == InitDispatcher /\ IdleValidator /\ IdleSearch /\ IdleConv /\ IdleStats /\ IdlePipes
Next == NextDispatcher
Spec == Init /\ [][Next]_vars

\* concurrent /api/json requests
InitJ == IdleDispatcher /\ IdleValidator /\ IdleSearch /\ IdleConv /\ IdleStats /\ IdlePipes
SpecJson == InitJ /\ [][NextJson]_vars

\* the validator applied to one raw parameter
InitV == IdleDispatcher /\ InitValidator /\ IdleSearch /\ IdleConv /\ IdleStats /\ IdlePipes
SpecValidator == InitV /\ [][NextValidator]_vars

\* one search request over one table
InitS == IdleDispatcher /\ IdleValidator /\ InitSearch /\ IdleConv /\ IdleStats /\ IdlePipes
SpecSearch == InitS /\ [][NextSearch]_vars

\* a client that pages through /api/search or follows its links
InitP == IdleDispatcher /\ IdleValidator /\ InitPaging /\ IdleConv /\ IdleStats /\ IdlePipes
SpecPaging == InitP /\ [][NextPaging]_vars

\* one /api/statistics request over one statistics file
InitT == IdleDispatcher /\ IdleValidator /\ IdleSearch /\ IdleConv /\ InitStats /\ IdlePipes
SpecStats == InitT /\ [][NextStats]_vars

\* one /api/json job: the writer thread, the analyzer and the handler
InitJP == IdleDispatcher /\ IdleValidator /\ IdleSearch /\ IdleConv /\ IdleStats /\ InitPipes
SpecPipes == InitJP /\ [][NextPipes]_vars /\ FairPipes

\* Message::from applied to one stored row
InitM == IdleDispatcher /\ IdleValidator /\ IdleSearch /\ InitConv /\ IdleStats /\ IdlePipes
SpecConv == InitM /\ [][NextConv]_vars

-----------------------------------------------------------------------------
(* Claims about the dispatcher (Spec) *)

Limited(r) == req[r].kind \in {"lint", "download"}

\* C1: at no time are two analyzer jobs in flight for the same source IP,
\* and at no time are two analyzer jobs in flight for the same tool.
C1_NoTwoJobsPerIpOrTool ==
    \A r \in InFlight, q \in InFlight :
        r # q => req[r].ip # req[q].ip /\ req[r].tool # req[q].tool

\* C2: a relint request that arrives while a job for the same tool, started
\* from another IP, is in flight is answered 429 and starts no analyzer.
C2_SameToolRejected ==
    [][\A r \in Reqs :
          (/\ req[r].kind = "none"
           /\ req'[r].kind = "lint"
           /\ \E q \in InFlight : /\ req[q].tool = req'[r].tool
                                  /\ req[q].ip # req'[r].ip)
          => (req'[r].status = TOO_MANY_REQUESTS /\ req'[r].pc = "done")]_vars

\* C3: when an admitted relint request returns, no job of the initiating IP
\* is in flight any more.
C3_ReleasedOnReturn ==
    [][\A r \in Reqs :
          (r \in InFlight /\ req'[r].pc = "done")
          => ~\E q \in Reqs : /\ req'[q].kind = "lint"
                              /\ req'[q].pc = "running"
                              /\ req'[q].ip = req[r].ip]_vars

\* C4: lint and download requests share one limiter: two admitted requests
\* are at least Window seconds apart, and a request that arrives less than
\* Window seconds after an admitted one is answered 429 at once.
C4_OnePerWindow ==
    /\ \A r \in Reqs, q \in Reqs :
           (r # q /\ Limited(r) /\ Limited(q) /\ req[r].admitted /\ req[q].admitted)
           => \/ req[r].arrivedAt - req[q].arrivedAt >= Window
              \/ req[q].arrivedAt - req[r].arrivedAt >= Window
    /\ \A r \in Reqs, q \in Reqs :
           (/\ q < r /\ Limited(r) /\ Limited(q) /\ req[q].admitted
            /\ req[r].arrivedAt - req[q].arrivedAt < Window)
           => /\ ~req[r].admitted
              /\ req[r].status = TOO_MANY_REQUESTS
              /\ req[r].pc = "done"

\* a lint request admitted, a download within its window rejected, and a
\* later request admitted again
C4_Witness ==
    \E a \in Reqs, b \in Reqs, c \in Reqs :
        /\ req[a].kind = "lint" /\ req[a].admitted
        /\ req[b].kind = "download" /\ req[b].status = TOO_MANY_REQUESTS
        /\ req[b].arrivedAt - req[a].arrivedAt < Window /\ a < b
        /\ b < c /\ Limited(c) /\ req[c].admitted

\* C6: a relint request whose tool the validator rejects ends with status
\* 500 and never has an analyzer child.
C6_RejectedNeverRuns ==
    \A r \in Reqs :
        (req[r].kind = "lint" /\ req[r].admitted /\ ~req[r].valid)
        => /\ req[r].pc = "done"
           /\ req[r].status = INTERNAL_SERVER_ERROR
           /\ req[r].exit = None
           /\ r \notin InFlight

C6_Witness ==
    \E r \in Reqs :
        /\ req[r].kind = "lint" /\ req[r].admitted /\ ~req[r].valid
        /\ req[r].tool = <<"a", ";">>
        /\ req[r].status = INTERNAL_SERVER_ERROR

\* C7: a validated relint request is answered 200 exactly when the analyzer
\* exits successfully, 400 when it exits with code 254, and 500 otherwise.
C7_RelintClassification ==
    \A r \in Reqs :
        (req[r].kind = "lint" /\ req[r].valid /\ req[r].pc = "done" /\ req[r].admitted)
        => IF ~req[r].exit.some THEN req[r].status = INTERNAL_SERVER_ERROR
           ELSE IF Success(req[r].exit.v) THEN req[r].status = OK
           ELSE IF ~req[r].exit.v.signal /\ req[r].exit.v.code = 254
                THEN req[r].status = BAD_REQUEST
           ELSE req[r].status = INTERNAL_SERVER_ERROR

-----------------------------------------------------------------------------
(* Claims about POST /api/json (SpecJson) *)

\* C8: /api/json answers 200 with the analyzer's output only when the
\* analyzer exits successfully, 400 on exit code 254, 500 on every other
\* exit status.
C8_JsonClassification ==
    \A r \in Reqs :
        (req[r].kind = "json" /\ req[r].pc = "done")
        => IF Success(req[r].exit.v)
           THEN req[r].status = OK /\ req[r].body = "stdout"
           ELSE IF req[r].exit.v.code = 254 THEN req[r].status = BAD_REQUEST
           ELSE req[r].status = INTERNAL_SERVER_ERROR

-----------------------------------------------------------------------------
(* Claims about the validator (SpecValidator) *)

\* C5: the validator accepts every trimmed identifier of one or more
\* characters of [A-Za-z0-9_.-] without the substring "--lint-all", and
\* rejects every one with a character outside the set or with the substring.
C5_ValidatorAcceptsExactly ==
    vPc = "done" =>
        LET t == Trim(vIn)
            outside == \E i \in 1..Len(t) :
                           t[i] \notin (LowerChars \cup UpperChars \cup DigitChars
                                            \cup {"_", ".", "-"})
            reserved == \E i \in 1..Len(t) :
                            /\ i + 9 <= Len(t)
                            /\ \A k \in 1..10 : t[i + k - 1] = LintAll[k]
        IN  /\ (t # <<>> /\ ~outside /\ ~reserved) => vOut
            /\ (outside \/ reserved) => ~vOut

\* an identifier holding both halves of the reserved flag, apart, is accepted
C5_Witness ==
    /\ vPc = "done"
    /\ vOut
    /\ vIn # Trim(vIn)
    /\ Contains(vIn, <<"-","-","l","i","n","t">>)
    /\ Contains(vIn, <<"-","a","l","l">>)

-----------------------------------------------------------------------------
(* Claims about GET /api/search (SpecSearch) *)

\* (p + 1) * 100 < n over the integers, p a non-negative i64 and n < 2^16
NextPageExists(p, n) == IsSmall(p) /\ (p[1] + 1) * PAGE_SIZE < n

\* C9: next is present, and names page p + 1, iff (p + 1) * 100 < N;
\* previous is present, and names page p - 1, iff p > 0; N is the count
\* of the filtered query.
C9_Cursors ==
    sPc = "done" =>
        LET p == sReq.page
            N == CountFor(store, sReq.query, sReq.severity, CodeOrAll(sReq.code)).n
        IN  /\ sResp.count = N
            /\ sResp.next.some <=> NextPageExists(p, N)
            /\ sResp.next.some => sResp.next.v = AddLimbs(p, 1)
            /\ sResp.previous.some <=> p # I64(0)
            /\ sResp.previous.some => sResp.previous.v = DecLimbs(p)

\* The same cursors, for the pages whose offset page * 100 fits an i64.
CursorsInRange ==
    (sPc = "done" /\ ~MulOverflows(sReq.page, PAGE_SIZE)) =>
        LET p == sReq.page
            N == CountFor(store, sReq.query, sReq.severity, CodeOrAll(sReq.code)).n
        IN  /\ sResp.count = N
            /\ sResp.next.some <=> NextPageExists(p, N)
            /\ sResp.next.some => sResp.next.v = AddLimbs(p, 1)
            /\ sResp.previous.some <=> p # I64(0)
            /\ sResp.previous.some => sResp.previous.v = DecLimbs(p)

\* the rows of a defined severity that satisfy the query and code filters
DefinedLevels == {SeverityToI32(s) : s \in Severities}
OtherFilters(row) ==
    /\ ILike(row.code, CodeOrAll(sReq.code))
    /\ sReq.query.some =>
           \/ ILike(row.tool, QueryPattern(sReq.query.v))
           \/ ILike(row.code, QueryPattern(sReq.query.v))

\* C10: without a severity filter every stored row of a defined severity
\* that satisfies the other filters is counted.
C10_NoFilterCountsEverySeverity ==
    (sPc = "done" /\ ~sReq.severity.some) =>
        sResp.count =
            Cardinality({i \in DOMAIN store :
                            store[i].level \in DefinedLevels /\ OtherFilters(store[i])})

-----------------------------------------------------------------------------
(* Claims about the predicate shared by count and fetch (SpecSearch) *)

\* The filters as the request states them: a severity selects the rows of
\* its wire integer, a code the rows whose code matches the pattern, a query
\* the rows whose tool or code matches the escaped text; a filter that is
\* absent selects every row.
SatisfiesFilters(row, q) ==
    /\ q.severity.some => row.level = SeverityToI32(q.severity.v)
    /\ q.code.some => ILike(row.code, q.code.v)
    /\ q.query.some => \/ ILike(row.tool, QueryPattern(q.query.v))
                       \/ ILike(row.code, QueryPattern(q.query.v))

Matching(tbl, q) == {i \in 1..Len(tbl) : SatisfiesFilters(tbl[i], q)}

\* C11: for every combination of the optional filters, the count of a
\* search response is the number of stored rows that satisfy the filters
\* and every returned message comes from a row that satisfies them.
C11_CountAndResultsSatisfyFilters ==
    sPc = "done" =>
        /\ sResp.count = Cardinality(Matching(store, sReq))
        /\ \A k \in 1..Len(sResp.results) :
               sResp.results[k].time \in Matching(store, sReq)

\* With a severity filter present the count and the results do agree with
\* the filters; with severity = ReportCritical every result is critical.
FiltersAgreeUnderSeverity ==
    (sPc = "done" /\ sReq.severity.some) =>
        /\ sResp.count = Cardinality(Matching(store, sReq))
        /\ \A k \in 1..Len(sResp.results) :
               /\ sResp.results[k].time \in Matching(store, sReq)
               /\ sResp.results[k].severity = sReq.severity.v

\* Without a severity filter the count and the results agree with each
\* other: both select the rows of a level within MIN_SEVERITY..MAX_SEVERITY.
FiltersAgreeWithinRange ==
    (sPc = "done" /\ ~sReq.severity.some) =>
        LET inRange == {i \in Matching(store, sReq) :
                            /\ store[i].level >= MIN_SEVERITY
                            /\ store[i].level <= MAX_SEVERITY}
        IN  /\ sResp.count = Cardinality(inRange)
            /\ \A k \in 1..Len(sResp.results) : sResp.results[k].time \in inRange

-----------------------------------------------------------------------------
(* Claims about the conversions (SpecConv) *)

C14_DocumentedWireIntegers ==
    mPc = "done" =>
        \A s \in Severities :
            /\ mRow.level = Documented(s) => mMsg.severity = s
            /\ mMsg.severity = s => /\ mWire.into = Documented(s)
                                    /\ mWire.repr = Documented(s)

\* C20: Message::from is total: for every time, negative ones included,
\* and every level it produces a Message without panicking, the time copied
\* unchanged and an unrecognised level mapped to Error.
C20_MessageFromTotal ==
    /\ mPc # "panicked"
    /\ mPc = "done" =>
           /\ mMsg.time = mRow.time
           /\ mRow.level \notin DefinedWire => mMsg.severity = "Error"

\* For a time that is not negative the conversion does produce the Message.
MessageFromTotalSinceEpoch ==
    mRow.time >= 0 =>
        /\ mPc # "panicked"
        /\ mPc = "done" =>
               /\ mMsg.time = mRow.time
               /\ mRow.level \notin DefinedWire => mMsg.severity = "Error"

-----------------------------------------------------------------------------
(* Claims about paging (SpecSearch, SpecPaging) *)

\* C13: from a response with a next link, following next and then the
\* previous link of the resulting response leads back to the page of the
\* original request with its query, severity and code filters.
C13_NextThenPreviousReturns ==
    (Len(sLog) = 2 /\ sLog[1].via = "next" /\ sLog[2].via = "previous") =>
        sReq = sLog[1].req

\* The page number alone does come back.
NextThenPreviousReturnsToPage ==
    (Len(sLog) = 2 /\ sLog[1].via = "next" /\ sLog[2].via = "previous") =>
        sReq.page = sLog[1].req.page

\* the rows that the queries of a request select
Selected(tbl, q) ==
    {i \in 1..Len(tbl) :
        IF q.query.some
        THEN WhereSearch(tbl[i], q.query.v, q.severity, CodeOrAll(q.code))
        ELSE WherePaginated(tbl[i], q.severity, CodeOrAll(q.code))}

\* min(100, max(0, n - 100 * p)) for a page p >= 0
ExpectedResults(p, n) ==
    IF IsSmall(p) /\ PAGE_SIZE * p[1] < n
    THEN IF n - PAGE_SIZE * p[1] < PAGE_SIZE THEN n - PAGE_SIZE * p[1] ELSE PAGE_SIZE
    ELSE 0

\* C16: with N stored rows matching the filters, a search for a page
\* p >= 0 succeeds with exactly min(100, max(0, N - 100 * p)) results.
C16_ResultsPerPage ==
    ~IsNeg(sReq.page) =>
        /\ sPc # "panicked"
        /\ sPc = "done" =>
               Len(sResp.results) =
                   ExpectedResults(sReq.page, Cardinality(Selected(store, sReq)))

\* The loop over the pages 0, 1, 2, ... never fails, gets the expected
\* number of results on each page and ends after at most N / 100 + 1 pages.
PagingLoopSucceeds ==
    (Followed("page") /\ (sLog = <<>> => sReq.page = I64(0))) =>
        /\ sPc # "panicked"
        /\ sPc = "done" =>
               Len(sResp.results) =
                   ExpectedResults(sReq.page, Cardinality(Selected(store, sReq)))
        /\ Len(sLog) * PAGE_SIZE < Cardinality(Selected(store, sReq)) + PAGE_SIZE

\* C19: over an unchanged store the pages 0, 1, 2, ... of one filter set
\* partition the matching rows: no row is returned on two different pages
\* and no matching row is absent from every page.
C19_PagesPartition ==
    (Followed("page") /\ sLog # <<>> /\ sPc = "done" /\ Len(sResp.results) = 0) =>
        /\ \A j, k \in 1..Len(sLog) :
               j # k => \A a \in 1..Len(sLog[j].rows), b \in 1..Len(sLog[k].rows) :
                            sLog[j].rows[a] # sLog[k].rows[b]
        /\ \A i \in Selected(store, sReq) :
               \E k \in 1..Len(sLog) : \E a \in 1..Len(sLog[k].rows) : sLog[k].rows[a] = i

\* The pages hold the right number of rows and only matching ones.
PagesHoldMatchingRows ==
    \A k \in 1..Len(sLog) :
        sLog[k].via = "page" =>
            \A a \in 1..Len(sLog[k].rows) : sLog[k].rows[a] \in Selected(store, sReq)

-----------------------------------------------------------------------------
(* Claims about /api/statistics (SpecStats) *)

\* C15: for every bucket of the statistics file the error_types of the
\* response holds a key for each of the 25 known error codes; a code
\* missing from the file has the value null and every key and value of
\* the file is returned unchanged.
C15_EveryBucketHasEveryCode ==
    /\ Cardinality(CodeRun(1, Len(ERROR_CODES))) = 25
    /\ stPc = "done" =>
           /\ Len(stResp) = Len(stFile.data)
           /\ \A i \in 1..Len(stResp) :
                  LET inFile == stFile.data[i].error_types
                      out == stResp[i].error_types
                  IN  /\ \A c \in 1..Len(ERROR_CODES) :
                             /\ ERROR_CODES[c] \in DOMAIN out
                             /\ ERROR_CODES[c] \notin DOMAIN inFile => out[ERROR_CODES[c]] = Null
                      /\ \A k \in DOMAIN inFile : k \in DOMAIN out /\ out[k] = inFile[k]
                      /\ DOMAIN out = DOMAIN inFile \cup CodeRun(1, Len(ERROR_CODES))
                      /\ stResp[i].time = stFile.data[i].time

C15_Witness ==
    /\ stPc = "done"
    /\ \E i \in 1..Len(stResp) :
           /\ "URL_INVALID" \notin DOMAIN stFile.data[i].error_types
           /\ stResp[i].error_types["URL_INVALID"] = Null
           /\ "EDAM_FORMAT_DISCREPANCY" \in DOMAIN stFile.data[i].error_types
           /\ stResp[i].error_types["EDAM_FORMAT_DISCREPANCY"] = Number(MaxCount)
           /\ "OTHER_CODE" \in DOMAIN stResp[i].error_types

-----------------------------------------------------------------------------
(* Claims about /api/download (Spec) *)

\* C17: for every state of the store and every query, an admitted
\* GET /api/download responds 200 with the CSV body, the case where no
\* message matches the query included.
C17_DownloadAlwaysResponds ==
    \A r \in Reqs :
        (req[r].kind = "download" /\ req[r].admitted) =>
            /\ req[r].pc = "done"
            /\ req[r].status = OK
            /\ req[r].body = "csv"

-----------------------------------------------------------------------------
(* Claims about the pipes of /api/json (SpecPipes) *)

\* C18: the JSON job cannot deadlock on the pipes of the subprocess: for
\* any payload size and any output size relative to the capacity of the
\* pipes, the handler eventually obtains the exit status and returns.
C18_HandlerReturns == <>(hPc = "returned")

C18_Witness ==
    /\ hPc = "returned"
    /\ analyzer.mode = "write_then_read"
    /\ hGot > PipeCap
    /\ wLeft = 0
    /\ ~stdinOpen

\* No state short of the return is stuck.
NoPipeDeadlock == hPc = "returned" \/ ENABLED NextPipes

\* The handler returns only after the analyzer has exited, the payload
\* was written whole and the output was collected whole.
ReturnsAfterEverything ==
    hPc = "returned" =>
        /\ analyzer.exited
        /\ analyzer.out = 0
        /\ wLeft = 0
        /\ stdinBuf = 0
        /\ stdoutBuf = 0

====
